---- MODULE Spec2Model ----
(***************************************************************************)
(* A model of the convo-frontend chat client: the notification queue of    *)
(* components/ui/toast.tsx (useToast), the chat-room page (ChatRoom), the  *)
(* room-list page (ChatsPage) and the connection of useSocket.             *)
(* Strings that the code compares or orders (message ids, toast ids) are   *)
(* sequences of decimal digits, so that Date.now().toString() and the      *)
(* lexical order of ids are computed rather than assumed.                  *)
(***************************************************************************)
EXTENDS Integers, Sequences, FiniteSets

(* ----------------------------- bounds ---------------------------------- *)
\* number of addToast calls in a behaviour
MaxAdds == 3
\* number of one-millisecond clock steps inside one time-to-live window
MaxTick == 1
\* number of loadRoomData calls (effect runs and retries) in a behaviour
MaxLoads == 2
\* number of times the room id is copied in a behaviour
MaxCopies == 2
\* number of messages the server stores in a behaviour
MaxPosts == 2
\* number of toasts the room-list page adds in a behaviour
MaxListToasts == 2
\* number of consecutive transport failures of one connection
MaxFailures == 6
\* the last reading of the clock at which a reconnection is still scheduled
MaxTime == 32000

(* ------------------------- program constants --------------------------- *)
\* setTimeout(..., 5000) in addToast
TTL == 5000

\* setTimeout(..., 2000) in handleCopyRoomId
CopiedDelay == 2000

\* the reconnection schedule of useSocket: the first interval and the ceiling
BackoffBase == 500
BackoffCeiling == 10000

VARIABLES
    now,        \* the clock, in ms: Date.now() and the timer clock
    toasts,     \* useToast: the toasts state, a sequence of entries
    timers,     \* pending setTimeout callbacks
    nAdded,     \* number of addToast calls so far (names the entries)
    last,       \* the operation that ran last, with its inputs
    \* ChatRoom
    roomId,             \* useParams().chatRoomId
    token,              \* localStorage holds a "token" item
    nav,                \* the last router.push target
    message,            \* the input text
    messages,           \* the history messages
    roomInfo,
    isLoading,
    isLoadingMessages,
    error,
    isSendingMessage,
    copiedRoomId,
    fetches,            \* the fetch calls in flight
    nLoads,             \* number of loadRoomData calls so far
    \* useSocket(roomId)
    conn,               \* ConnectionState
    socketMessages,     \* the live stream's messages
    failures,           \* consecutive transport failures of the connection
    prevConn,           \* ConnectionState of the connection closed last
    \* the server
    posted,             \* the message log of each room
    joined,             \* the rooms the user is a member of
    \* ChatsPage
    list,               \* the state of the room-list page, a record
    \* LoginPage, RegisterPage
    form,               \* the state of the form page, a record
    user                \* localStorage holds a "user" item

toastVars == <<toasts, timers, nAdded>>
pageVars == <<roomId, token, nav, message, messages, roomInfo, isLoading,
              isLoadingMessages, error, isSendingMessage, copiedRoomId,
              fetches, nLoads>>
sockVars == <<conn, socketMessages>>
\* the state of the ChatRoom component
roomVars == <<roomId, message, messages, roomInfo, isLoading,
              isLoadingMessages, error, isSendingMessage, copiedRoomId,
              fetches, nLoads>>
listVars == <<list, joined>>
retryVars == <<failures, prevConn>>
authVars == <<form, user>>
restVars == <<listVars, retryVars, authVars>>
vars == <<now, toasts, timers, nAdded, last, roomId, token, nav, message,
          messages, roomInfo, isLoading, isLoadingMessages, error,
          isSendingMessage, copiedRoomId, fetches, nLoads, conn,
          socketMessages, posted, restVars>>

(* ------------------------------ helpers -------------------------------- *)
RECURSIVE ToString(_)
\* Number.prototype.toString(): the decimal digits of n, most significant first
ToString(n) == IF n < 10 THEN <<n>> ELSE ToString(n \div 10) \o <<n % 10>>

\* Array.prototype.filter((t) => t.id !== id)
FilterOutDropsHead(q, id) == IF q = <<>> THEN q ELSE Tail(q)
FilterOut(q, id) == SelectSeq(q, LAMBDA t : t.id # id)

\* const id = Date.now().toString()
FreshId(t) == ToString(t)

ToastTypes == {"success", "error"}

\* the ids removeToast is called with: every id the clock can produce, and
\* one that addToast never produces
IdUniverse ==
    {ToString(k * TTL + o) : k \in 0..MaxAdds, o \in 0..MaxTick} \cup {<<>>}

\* the room ids of the server, and the value of a missing route parameter
Rooms == {"A", "B"}
NoRoom == ""
\* useState<RoomInfo | null>(null)
NoInfo == [id |-> "", name |-> "", memberCount |-> 0]

\* the texts typed into the input: characters are one-character strings
Texts == {<<>>, <<" ">>, <<"h", "i">>, <<" ", "h", " ">>}
IsWhiteSpace(c) == c \in {" ", "\t", "\n"}

RECURSIVE TrimStart(_)
TrimStart(s) ==
    IF s # <<>> /\ IsWhiteSpace(Head(s)) THEN TrimStart(Tail(s)) ELSE s

RECURSIVE TrimEnd(_)
TrimEnd(s) ==
    IF s # <<>> /\ IsWhiteSpace(s[Len(s)])
    THEN TrimEnd(SubSeq(s, 1, Len(s) - 1)) ELSE s

\* String.prototype.trim()
Trim(s) == TrimEnd(TrimStart(s))

RECURSIVE LexLess(_, _)
\* a < b for strings of digits, compared character by character
LexLess(a, b) ==
    IF b = <<>> THEN FALSE
    ELSE IF a = <<>> THEN TRUE
    ELSE IF Head(a) # Head(b) THEN Head(a) < Head(b)
    ELSE LexLess(Tail(a), Tail(b))

(* --------------------------- useToast ---------------------------------- *)
\* addToast: the entry gets the clock's reading as id and is appended; a
\* timer is set for TTL ms later.  The fields n and at are not fields of the
\* code's entry: n is the identity of the object, at its time of creation.
AddToastEntryCapped(q, ty, t, n) ==
    Append(IF Len(q) >= 2 THEN Tail(q) ELSE q,
           [id |-> FreshId(t), type |-> ty, n |-> n, at |-> t])
AddToastEntry(q, ty, t, n) ==
    Append(q, [id |-> FreshId(t), type |-> ty, n |-> n, at |-> t])

AddToastTimerLate(t, n) ==
    [kind |-> "toast", id |-> FreshId(t), due |-> t + TTL + 1, n |-> n]
AddToastTimer(t, n) == [kind |-> "toast", id |-> FreshId(t), due |-> t + TTL, n |-> n]

AddToast(ty) ==
    /\ nAdded < MaxAdds
    /\ toasts' = AddToastEntry(toasts, ty, now, nAdded + 1)
    /\ timers' = timers \cup {AddToastTimer(now, nAdded + 1)}
    /\ nAdded' = nAdded + 1
    /\ last' = [op |-> "addToast", id |-> FreshId(now), n |-> nAdded + 1,
                 removed |-> 0]
    /\ UNCHANGED <<now, pageVars, sockVars, posted, restVars>>

\* removeToast(id)
RemoveToast(id) ==
    /\ toasts' = FilterOut(toasts, id)
    /\ last' = [op |-> "removeToast", id |-> id, n |-> 0,
                 removed |-> Len(toasts) - Len(toasts')]
    /\ UNCHANGED <<now, timers, nAdded, pageVars, sockVars, posted, restVars>>

\* the callback of addToast's setTimeout
ToastTimerFires(tm) ==
    /\ tm.kind = "toast"
    /\ tm.due <= now
    /\ toasts' = FilterOut(toasts, tm.id)
    /\ timers' = timers \ {tm}
    /\ last' = [op |-> "toastTimer", id |-> tm.id, n |-> tm.n,
                 removed |-> Len(toasts) - Len(toasts')]
    /\ UNCHANGED <<now, nAdded, pageVars, sockVars, posted, restVars>>

(* ------------------------------ clock ---------------------------------- *)
NextDue == CHOOSE d \in {tm.due : tm \in timers} :
               \A tm \in timers : d <= tm.due

\* Time passes: by one millisecond, or up to the next timer's deadline.  A
\* timer that is due runs before the clock moves on.
Tick ==
    /\ \A tm \in timers : tm.due > now
    /\ \/ /\ now % TTL < MaxTick
          /\ now' = now + 1
       \/ /\ timers # {}
          /\ now' = NextDue
    /\ last' = [op |-> "tick", id |-> <<>>, n |-> 0, removed |-> 0]
    /\ UNCHANGED <<toastVars, pageVars, sockVars, posted, restVars>>

(* ------------------------------ server --------------------------------- *)
\* GET /chat/room/{id}: the RoomInfo of room r
RoomInfoOf(r) == [id |-> r, name |-> r, memberCount |-> 1]

\* GET /chat/room/{id}/messages: the log of room r, oldest first
HistoryOf(r) == posted[r]

NumPosted == Len(posted["A"]) + Len(posted["B"])

\* what a fetch can end in: a status, a body that is no array, an array
\* with an entry that has no id, a rejection
Outcomes ==
    {"ok", "okNotArray", "okNoId", "401", "403", "404", "500", "throw"}

\* a busy flag after the finally block of its handler: setIsSendingMessage,
\* setIsCreatingRoom, setIsJoiningRoom, setIsLoading (false)
BusyAfterKept(b) == b
BusyAfter(b) == FALSE

(* ------------------------------ ChatsPage ------------------------------ *)
Login == "/auth/login"

\* localStorage after a response: removeItem("token") on a 401
TokenAfterKept(out, tk) == tk
TokenAfter(out, tk) == IF out = "401" THEN FALSE ELSE tk

\* the useState values of the room-list page; reqs holds the requests in
\* flight.  This is also the value of list while the page is not mounted.
ListUnmounted ==
    [mounted |-> FALSE, rooms |-> <<>>, isLoading |-> TRUE, error |-> "",
     roomName |-> <<>>, joinRoomId |-> <<>>, copiedRoomId |-> NoRoom,
     isCreatingRoom |-> FALSE,
     isJoiningRoom |-> FALSE, reqs |-> {}]

\* what is typed into the two inputs
RoomNames == {<<>>, <<" ">>, <<"n">>}
JoinTexts == {<<>>, <<"B">>, <<"Z">>}

\* the room a typed id names, NoRoom if there is none
RoomOfText(t) ==
    IF t = <<"A">> THEN "A" ELSE IF t = <<"B">> THEN "B" ELSE NoRoom

\* GET /chat/rooms: the rooms of the user
RoomList(S) == SelectSeq(<<"A", "B">>, LAMBDA r : r \in S)

\* the page rendered: LoadingPage, ErrorPage or the rooms view
ListView ==
    IF list.isLoading THEN "loading"
    ELSE IF list.error # "" THEN "error"
    ELSE "rooms"

\* addToast called by the room-list page
ListToast(ty) ==
    /\ toasts' = AddToastEntry(toasts, ty, now, nAdded + 1)
    /\ timers' = timers \cup {AddToastTimer(now, nAdded + 1)}
    /\ nAdded' = nAdded + 1

RoomsRequest(cont) == [kind |-> "rooms", text |-> <<>>, cont |-> cont]

\* setError of fetchRooms for an outcome
RoomsError(out, e) ==
    CASE out = "ok" -> ""
      [] out = "500" -> "Failed to fetch rooms"
      [] out = "throw" -> "Failed to fetch"
      [] OTHER -> e

\* the GET of fetchRooms settles with outcome out; when handleJoinRoom
\* awaits it (cont = "join"), handleJoinRoom then runs to its end
RoomsSettles(q, out) ==
    /\ list.mounted
    /\ q \in list.reqs
    /\ q.kind = "rooms"
    /\ out \in {"ok", "401", "500", "throw"}
    /\ q.cont = "join" => nAdded < MaxListToasts
    /\ token' = TokenAfter(out, token)
    /\ nav' = IF out = "401" THEN Login ELSE nav
    /\ list' = [list EXCEPT
                  !.reqs = @ \ {q},
                  !.rooms = IF out = "ok" THEN RoomList(joined) ELSE @,
                  !.error = RoomsError(out, @),
                  !.isLoading = FALSE,
                  !.joinRoomId = IF q.cont = "join" THEN <<>> ELSE @,
                  !.isJoiningRoom = IF q.cont = "join" THEN BusyAfter(@) ELSE @]
    /\ IF q.cont = "join" THEN ListToast("success") ELSE UNCHANGED toastVars
    /\ last' = [op |-> "fetchRooms", out |-> out]
    /\ UNCHANGED <<now, roomVars, sockVars, retryVars, authVars, posted, joined>>

\* setError("") of handleRetry, on both pages
ErrorAfterRetryKept(e) == e
ErrorAfterRetry(e) == ""

\* handleRetry of the room-list page, the Retry button of its error page;
\* fetchRooms sends no request when there is no token
ListHandleRetry ==
    /\ list.mounted
    /\ ListView = "error"
    /\ nav' = IF token THEN nav ELSE Login
    /\ list' = [list EXCEPT
                  !.isLoading = token,
                  !.error = ErrorAfterRetry(@),
                  !.reqs = IF token THEN @ \cup {RoomsRequest("none")} ELSE @]
    /\ last' = [op |-> "listHandleRetry"]
    /\ UNCHANGED <<now, toastVars, token, roomVars, sockVars, retryVars, authVars,
                   posted, joined>>

\* onChange of the room-name input, which is disabled while a room is
\* being created
SetRoomName(t) ==
    /\ list.mounted
    /\ ListView = "rooms"
    /\ ~list.isCreatingRoom
    /\ t # list.roomName
    /\ list' = [list EXCEPT !.roomName = t]
    /\ last' = [op |-> "setRoomName"]
    /\ UNCHANGED <<now, toastVars, token, nav, roomVars, sockVars, retryVars, authVars,
                   posted, joined>>

\* onChange of the room-id input, which is disabled while a room is being
\* joined
SetJoinRoomId(t) ==
    /\ list.mounted
    /\ ListView = "rooms"
    /\ ~list.isJoiningRoom
    /\ t # list.joinRoomId
    /\ list' = [list EXCEPT !.joinRoomId = t]
    /\ last' = [op |-> "setJoinRoomId"]
    /\ UNCHANGED <<now, toastVars, token, nav, roomVars, sockVars, retryVars, authVars,
                   posted, joined>>

\* handleCreateRoom up to its await: the Create button, or Enter in the
\* room-name input
HandleCreateRoom ==
    /\ list.mounted
    /\ ListView = "rooms"
    /\ ~list.isCreatingRoom
    /\ IF Trim(list.roomName) = <<>>
       THEN /\ nAdded < MaxListToasts
            /\ ListToast("warning")
            /\ UNCHANGED list
       ELSE /\ list' = [list EXCEPT
                         !.isCreatingRoom = TRUE,
                         !.reqs = @ \cup {[kind |-> "create",
                                           text |-> list.roomName,
                                           cont |-> "none"]}]
            /\ UNCHANGED toastVars
    /\ last' = [op |-> "handleCreateRoom"]
    /\ UNCHANGED <<now, token, nav, roomVars, sockVars, retryVars, authVars, posted,
                   joined>>

\* the POST of handleCreateRoom settles with outcome out; r is the room
\* the server made, NoRoom if it made none
CreateSettles(q, out, r) ==
    /\ list.mounted
    /\ q \in list.reqs
    /\ q.kind = "create"
    /\ out \in {"ok", "401", "500", "throw"}
    /\ IF out = "ok" THEN r \in Rooms \ joined ELSE r = NoRoom
    /\ nAdded < MaxListToasts
    /\ list' = [list EXCEPT
                  !.reqs = @ \ {q},
                  !.rooms = IF out = "ok" THEN <<r>> \o @ ELSE @,
                  !.roomName = IF out = "ok" THEN <<>> ELSE @,
                  !.isCreatingRoom = BusyAfter(@)]
    /\ joined' = IF out = "ok" THEN joined \cup {r} ELSE joined
    /\ ListToast(IF out = "ok" THEN "success" ELSE "error")
    /\ last' = [op |-> "createRoom", out |-> out]
    /\ UNCHANGED <<now, token, nav, roomVars, sockVars, retryVars, authVars, posted>>

\* handleJoinRoom up to its first await: the Join button, or Enter in the
\* room-id input
HandleJoinRoom ==
    /\ list.mounted
    /\ ListView = "rooms"
    /\ ~list.isJoiningRoom
    /\ IF Trim(list.joinRoomId) = <<>>
       THEN /\ nAdded < MaxListToasts
            /\ ListToast("warning")
            /\ UNCHANGED list
       ELSE /\ list' = [list EXCEPT
                         !.isJoiningRoom = TRUE,
                         !.reqs = @ \cup {[kind |-> "join",
                                           text |-> list.joinRoomId,
                                           cont |-> "none"]}]
            /\ UNCHANGED toastVars
    /\ last' = [op |-> "handleJoinRoom"]
    /\ UNCHANGED <<now, token, nav, roomVars, sockVars, retryVars, authVars, posted,
                   joined>>

\* the answers of POST /chat/join to a room id
JoinOutcomes(t) ==
    {"401", "500", "throw"}
      \cup (IF RoomOfText(t) = NoRoom THEN {"404"}
            ELSE IF RoomOfText(t) \in joined THEN {"409"} ELSE {"ok"})

JoinToast(out) == IF out = "409" THEN "warning" ELSE "error"

\* the POST of handleJoinRoom settles with outcome out.  After an ok
\* response fetchRooms is awaited: with a token it sends its request, with
\* none it returns at once and handleJoinRoom runs to its end.
JoinSettles(q, out) ==
    /\ list.mounted
    /\ q \in list.reqs
    /\ q.kind = "join"
    /\ out \in JoinOutcomes(q.text)
    /\ (out # "ok" \/ ~token) => nAdded < MaxListToasts
    /\ joined' = IF out = "ok" THEN joined \cup {RoomOfText(q.text)} ELSE joined
    /\ IF out = "ok" /\ token
       THEN /\ list' = [list EXCEPT
                         !.reqs = (@ \ {q}) \cup {RoomsRequest("join")}]
            /\ UNCHANGED <<toastVars, nav>>
       ELSE /\ list' = [list EXCEPT
                         !.reqs = @ \ {q},
                         !.isLoading = IF out = "ok" THEN FALSE ELSE @,
                         !.joinRoomId = IF out = "ok" THEN <<>> ELSE @,
                         !.isJoiningRoom = BusyAfter(@)]
            /\ nav' = IF out = "ok" THEN Login ELSE nav
            /\ ListToast(IF out = "ok" THEN "success" ELSE JoinToast(out))
    /\ last' = [op |-> "joinRoom", out |-> out]
    /\ UNCHANGED <<now, token, roomVars, sockVars, retryVars, authVars, posted>>

\* the Copied indicator after navigator.clipboard.writeText settled:
\* setCopiedRoomId(v) runs after a write that did not throw
CopiedAfterSet(ok, v, c) == v
CopiedAfter(ok, v, c) == IF ok THEN v ELSE c

\* the callback of the room-list page's setTimeout
ListCopiedTimer(t, n) ==
    [kind |-> "listCopied", id |-> <<>>, due |-> t + CopiedDelay, n |-> n]

\* handleCopyRoomId of the room-list page for the card of room r, after
\* navigator.clipboard.writeText settled (ok or not)
ListHandleCopyRoomId(r, ok) ==
    /\ list.mounted
    /\ ListView = "rooms"
    /\ \E i \in 1..Len(list.rooms) : list.rooms[i] = r
    /\ nAdded < MaxListToasts
    /\ list' = [list EXCEPT !.copiedRoomId = CopiedAfter(ok, r, @)]
    /\ toasts' = AddToastEntry(toasts, IF ok THEN "success" ELSE "error",
                                now, nAdded + 1)
    /\ timers' = timers \cup {AddToastTimer(now, nAdded + 1)}
                     \cup (IF ok THEN {ListCopiedTimer(now, nAdded + 1)} ELSE {})
    /\ nAdded' = nAdded + 1
    /\ last' = [op |-> "handleCopyRoomId", ok |-> ok]
    /\ UNCHANGED <<now, token, nav, roomVars, sockVars, retryVars, authVars,
                   posted, joined>>

\* onClose of a toast the room-list page shows
CloseListToast(i) ==
    /\ list.mounted
    /\ ListView = "rooms"
    /\ i \in 1..Len(toasts)
    /\ RemoveToast(toasts[i].id)

(* ------------------------------ ChatRoom ------------------------------- *)

\* the two fetches of one loadRoomData call, for the room id the callbacks
\* were created with
StartLoad(k, r) ==
    {[k |-> k, kind |-> "info", room |-> r], [k |-> k, kind |-> "msgs", room |-> r]}

\* the render: which page the component returns
View ==
    IF roomId = NoRoom THEN "invalid"
    ELSE IF isLoading THEN "loading"
    ELSE IF error # "" THEN "error"
    ELSE "chat"

\* the rendered list: [...messages, ...socketMessages]
MergedView == messages \o socketMessages

\* setError of fetchRoomInfo / fetchMessages for an outcome
FetchErrorNone(kind, out, e) == e
FetchError(kind, out, e) ==
    CASE out = "404" -> "Room not found"
      [] out = "403" -> "You don't have access to this room"
      [] out = "500" -> IF kind = "info"
                        THEN "Failed to fetch room information"
                        ELSE "Failed to fetch messages"
      [] out = "throw" -> "Failed to fetch"
      [] OTHER -> e

\* the id of an entry that has no id field
NoId == <<>>
\* a response body that is an array with an entry without id in it
BodyWithNoId(r) == <<[id |-> NoId, createdAt |-> 0]>> \o HistoryOf(r)

\* setMessages(Array.isArray(data) ? data : [])
FetchedMessages(f, out, ms) ==
    CASE out = "ok" -> HistoryOf(f.room)
      [] out = "okNoId" -> BodyWithNoId(f.room)
      [] out = "okNotArray" -> <<>>
      [] OTHER -> ms

\* room-info state written whatever the response was
FetchedRoomInfoAlways(f, out, ri) == RoomInfoOf(f.room)

\* setRoomInfo(data)
FetchedRoomInfo(f, out, ri) == IF out = "ok" THEN RoomInfoOf(f.room) ELSE ri

\* the outcomes of a fetch: the body of a room-info response is an object
OutcomesOf(f) ==
    IF f.kind = "info" THEN Outcomes \ {"okNotArray", "okNoId"} ELSE Outcomes

\* a fetch of fetchRoomInfo or fetchMessages settles with outcome out; when
\* it is the last one of its loadRoomData call, Promise.all resolves and
\* setIsLoading(false) runs
FetchSettles(f, out) ==
    /\ f \in fetches
    /\ out \in OutcomesOf(f)
    /\ fetches' = fetches \ {f}
    /\ isLoading' = IF \E g \in fetches \ {f} : g.k = f.k THEN isLoading ELSE FALSE
    /\ token' = TokenAfter(out, token)
    /\ nav' = IF out = "401" THEN Login ELSE nav
    /\ error' = FetchError(f.kind, out, error)
    /\ IF f.kind = "info"
       THEN /\ roomInfo' = FetchedRoomInfo(f, out, roomInfo)
            /\ UNCHANGED <<messages, isLoadingMessages>>
       ELSE /\ messages' = FetchedMessages(f, out, messages)
            /\ isLoadingMessages' = FALSE
            /\ UNCHANGED roomInfo
    /\ last' = [op |-> "fetch", kind |-> f.kind, room |-> f.room, out |-> out,
                 k |-> f.k]
    /\ UNCHANGED <<now, toastVars, roomId, message, isSendingMessage,
                   copiedRoomId, nLoads, sockVars, posted, restVars>>

\* the effect of lines 130-149, run for room id r
EffectLoadsTokenless(r, tk) == r # NoRoom
EffectError(r, e) == IF r = NoRoom THEN "Invalid room ID" ELSE e
EffectIsLoading(r, l) == IF r = NoRoom THEN FALSE ELSE l
EffectNav(r, tk, nv) == IF r # NoRoom /\ ~tk THEN Login ELSE nv
EffectLoads(r, tk) == r # NoRoom /\ tk

\* useSocket(roomId): a new connection is opened for the room id
SocketOpen(r) == IF r = NoRoom THEN "Disconnected" ELSE "Connecting"

\* close() of the connection: its pending reconnection timer is stopped
SocketCloseKeepsTimer(tms) == tms
SocketClose(tms) == {tm \in tms : tm.kind # "reconnect"}

\* the route parameter changes to r: the component renders with the new
\* room id, useSocket opens a connection for it and the effect runs again
SwitchRoom(r) ==
    /\ r # roomId
    /\ EffectLoads(r, token) => nLoads < MaxLoads
    /\ roomId' = r
    /\ error' = EffectError(r, error)
    /\ isLoading' = EffectIsLoading(r, isLoading)
    /\ nav' = EffectNav(r, token, nav)
    /\ IF EffectLoads(r, token)
       THEN /\ fetches' = fetches \cup StartLoad(nLoads + 1, r)
            /\ nLoads' = nLoads + 1
       ELSE UNCHANGED <<fetches, nLoads>>
    /\ conn' = SocketOpen(r)
    /\ socketMessages' = <<>>
    /\ timers' = SocketClose(timers)
    /\ failures' = 0
    /\ prevConn' = "Disconnected"
    /\ last' = [op |-> "switchRoom", from |-> roomId, to |-> r,
                 closed |-> conn]
    /\ UNCHANGED <<now, toasts, nAdded, token, message, messages, roomInfo,
                   isLoadingMessages, isSendingMessage, copiedRoomId, posted,
                   listVars, authVars>>

\* handleRetry, the Retry button of the error page
HandleRetry ==
    /\ View = "error"
    /\ nLoads < MaxLoads
    /\ isLoading' = TRUE
    /\ isLoadingMessages' = TRUE
    /\ error' = ErrorAfterRetry(error)
    /\ fetches' = fetches \cup StartLoad(nLoads + 1, roomId)
    /\ nLoads' = nLoads + 1
    /\ last' = [op |-> "handleRetry"]
    /\ UNCHANGED <<now, toastVars, roomId, token, nav, message, messages,
                   roomInfo, isSendingMessage, copiedRoomId, sockVars, posted, restVars>>

\* the guard of handleSend: nothing is sent
SendRejectedUntrimmed(msg, r, sending) == msg = <<>> \/ r = NoRoom \/ sending
SendRejected(msg, r, sending) == Trim(msg) = <<>> \/ r = NoRoom \/ sending

\* socketSendMessage(message): it throws unless the connection is Connected
SocketSendThrows == conn # "Connected"

\* setMessage("") after socketSendMessage returned; the catch leaves the
\* input as it is
InputAfterSendKept(msg, threw) == msg
InputAfterSend(msg, threw) == IF threw THEN msg ELSE <<>>

\* setError in the catch of handleSend
SendError(e) == "Not connected"

\* handleSend: the Send button, or Enter in the input
HandleSend ==
    /\ View = "chat"
    /\ IF SendRejected(message, roomId, isSendingMessage)
       THEN /\ UNCHANGED <<message, error, isSendingMessage>>
            /\ last' = [op |-> "handleSend", called |-> FALSE, threw |-> FALSE,
                         text |-> message]
       ELSE /\ isSendingMessage' = BusyAfter(TRUE)
            /\ message' = InputAfterSend(message, SocketSendThrows)
            /\ error' = IF SocketSendThrows THEN SendError(error) ELSE error
            /\ last' = [op |-> "handleSend", called |-> TRUE,
                         threw |-> SocketSendThrows, text |-> message]
    /\ UNCHANGED <<now, toastVars, roomId, token, nav, messages, roomInfo,
                   isLoading, isLoadingMessages, copiedRoomId, fetches, nLoads,
                   sockVars, posted, restVars>>

\* onChange of the input
SetMessage(t) ==
    /\ View = "chat"
    /\ t # message
    /\ message' = t
    /\ last' = [op |-> "setMessage"]
    /\ UNCHANGED <<now, toastVars, roomId, token, nav, messages, roomInfo,
                   isLoading, isLoadingMessages, error, isSendingMessage,
                   copiedRoomId, fetches, nLoads, sockVars, posted, restVars>>

CopiedTimer(t, n) == [kind |-> "copied", id |-> <<>>, due |-> t + CopiedDelay, n |-> n]

\* handleCopyRoomId, after navigator.clipboard.writeText settled (ok or not)
HandleCopyRoomId(ok) ==
    /\ View = "chat"
    /\ nAdded < MaxCopies
    /\ toasts' = AddToastEntry(toasts, IF ok THEN "success" ELSE "error",
                                now, nAdded + 1)
    /\ timers' = timers \cup {AddToastTimer(now, nAdded + 1)}
                     \cup (IF ok THEN {CopiedTimer(now, nAdded + 1)} ELSE {})
    /\ nAdded' = nAdded + 1
    /\ copiedRoomId' = CopiedAfter(ok, TRUE, copiedRoomId)
    /\ last' = [op |-> "handleCopyRoomId", ok |-> ok]
    /\ UNCHANGED <<now, roomId, token, nav, message, messages, roomInfo,
                   isLoading, isLoadingMessages, error, isSendingMessage,
                   fetches, nLoads, sockVars, posted, restVars>>

\* the callback of handleCopyRoomId's setTimeout
CopiedTimerFires(tm) ==
    /\ tm.kind = "copied"
    /\ tm.due <= now
    /\ copiedRoomId' = FALSE
    /\ timers' = timers \ {tm}
    /\ last' = [op |-> "copiedTimer"]
    /\ UNCHANGED <<now, toasts, nAdded, roomId, token, nav, message, messages,
                   roomInfo, isLoading, isLoadingMessages, error,
                   isSendingMessage, fetches, nLoads, sockVars, posted, restVars>>

\* onClose of a toast the chat view shows
CloseToast(i) ==
    /\ View = "chat"
    /\ i \in 1..Len(toasts)
    /\ RemoveToast(toasts[i].id)

(* ------------------------------ useSocket ------------------------------ *)
\* a step of the connection from one state to another, after which it has
\* failed k times in a row and the pending timers are tms
SocketMove(from, to, k, tms) ==
    /\ conn = from
    /\ conn' = to
    /\ failures' = k
    /\ timers' = tms
    /\ last' = [op |-> "socket", to |-> to]
    /\ UNCHANGED <<now, toasts, nAdded, pageVars, socketMessages, posted,
                   prevConn, listVars, authVars>>

\* the connection's state machine, the reconnection schedule left aside
SocketStep(from, to) == SocketMove(from, to, failures, timers)

HandshakeOk == SocketStep("Connecting", "Connected")
TransportError ==
    \E from \in {"Connecting", "Connected"} : SocketStep(from, "Reconnecting")
BackoffElapsed == SocketStep("Reconnecting", "Connecting")

\* the interval before the next attempt after k failures in a row: it
\* doubles with each failure, up to the ceiling
RetryDelayUncapped(k) == BackoffBase * 2^(k - 1)
RetryDelay(k) ==
    IF BackoffBase * 2^(k - 1) < BackoffCeiling
    THEN BackoffBase * 2^(k - 1) ELSE BackoffCeiling

ReconnectTimer(t, k, r) ==
    [kind |-> "reconnect", id |-> <<>>, due |-> t + RetryDelay(k), n |-> k,
     room |-> r]

\* the handshake succeeds
ConnectionOpens == SocketMove("Connecting", "Connected", 0, timers)

\* the transport fails, while connecting or when connected: the next
\* attempt is scheduled
ConnectionFails ==
    /\ failures < MaxFailures
    /\ now + RetryDelay(failures + 1) <= MaxTime
    /\ \E from \in {"Connecting", "Connected"} :
          SocketMove(from, "Reconnecting", failures + 1,
                     timers \cup {ReconnectTimer(now, failures + 1, roomId)})

\* the reconnection timer tm runs: the connection that set it makes its
\* next attempt
ReconnectTimerFires(tm) ==
    /\ tm.kind = "reconnect"
    /\ tm.due <= now
    /\ timers' = timers \ {tm}
    /\ IF tm.room = roomId
       THEN /\ conn = "Reconnecting"
            /\ conn' = "Connecting"
            /\ UNCHANGED prevConn
       ELSE /\ prevConn' = "Connecting"
            /\ UNCHANGED conn
    /\ last' = [op |-> "reconnectTimer", room |-> tm.room]
    /\ UNCHANGED <<now, toasts, nAdded, pageVars, socketMessages, posted,
                   failures, listVars, authVars>>

\* the server stores a new message of room r and sends it to the room's
\* connected clients
NewMessage == [id |-> ToString(NumPosted + 1), createdAt |-> now]

PostMessage(r) ==
    /\ NumPosted < MaxPosts
    /\ posted' = [posted EXCEPT ![r] = Append(@, NewMessage)]
    /\ socketMessages' = IF r = roomId /\ conn = "Connected"
                         THEN Append(socketMessages, NewMessage)
                         ELSE socketMessages
    /\ last' = [op |-> "post", room |-> r]
    /\ UNCHANGED <<now, toastVars, pageVars, conn, restVars>>

(* ---------------------- LoginPage and RegisterPage --------------------- *)
Dashboard == "/dashboard"

LowerCase ==
    {"a", "b", "c", "d", "e", "f", "g", "h", "i", "j", "k", "l", "m",
     "n", "o", "p", "q", "r", "s", "t", "u", "v", "w", "x", "y", "z"}
UpperCase ==
    {"A", "B", "C", "D", "E", "F", "G", "H", "I", "J", "K", "L", "M",
     "N", "O", "P", "Q", "R", "S", "T", "U", "V", "W", "X", "Y", "Z"}
Digits == {"0", "1", "2", "3", "4", "5", "6", "7", "8", "9"}

\* /\S+@\S+\.\S+/.test(s): somewhere in s a non-space, "@", one or more
\* non-spaces, ".", a non-space
MatchesEmail(s) ==
    \E a \in 1..Len(s) : \E d \in 1..Len(s) :
        /\ s[a] = "@" /\ a > 1 /\ ~IsWhiteSpace(s[a - 1])
        /\ s[d] = "." /\ d > a + 1 /\ d < Len(s) /\ ~IsWhiteSpace(s[d + 1])
        /\ \A i \in (a + 1)..(d - 1) : ~IsWhiteSpace(s[i])

\* /^[a-zA-Z0-9_]+$/.test(s)
MatchesUsername(s) ==
    /\ s # <<>>
    /\ \A i \in 1..Len(s) : s[i] \in LowerCase \cup UpperCase \cup Digits \cup {"_"}

\* /(?=.*[a-z])(?=.*[A-Z])(?=.*\d)/.test(s)
MatchesPassword(s) ==
    /\ \E i \in 1..Len(s) : s[i] \in LowerCase
    /\ \E i \in 1..Len(s) : s[i] \in UpperCase
    /\ \E i \in 1..Len(s) : s[i] \in Digits

\* the texts typed into the fields of the forms
Emails == {<<>>, <<" ">>, <<"a", "@", "b">>, <<"a", "@", "b", ".", "c">>}
Usernames ==
    {<<>>, <<"a", "b">>, <<"a", "-", "b">>, <<"a", "b", "c">>,
     [i \in 1..21 |-> "a"]}
Passwords ==
    {<<>>, <<"a", "b", "c">>, <<"a", "b", "c", "d", "e", "f">>,
     <<"A", "b", "c", "d", "e", "1">>}

\* fieldErrors: a field without a message holds ""
NoFieldErrors ==
    [email |-> "", username |-> "", password |-> "", confirmPassword |-> ""]

\* the useState values of a form page; reqs holds the requests in flight.
\* This is also the value of form while no form page is mounted.
FormUnmounted ==
    [page |-> "none", email |-> <<>>, username |-> <<>>, password |-> <<>>,
     confirmPassword |-> <<>>, error |-> "", fieldErrors |-> NoFieldErrors,
     isLoading |-> FALSE, reqs |-> {}]

EmailError(s) ==
    IF Trim(s) = <<>> THEN "Email is required"
    ELSE IF ~MatchesEmail(s) THEN "Please enter a valid email"
    ELSE ""

UsernameError(s) ==
    IF Trim(s) = <<>> THEN "Username is required"
    ELSE IF Len(s) < 3 THEN "Username must be at least 3 characters"
    ELSE IF Len(s) > 20 THEN "Username must be less than 20 characters"
    ELSE IF ~MatchesUsername(s)
         THEN "Username can only contain letters, numbers, and underscores"
    ELSE ""

LoginPasswordError(s) ==
    IF Trim(s) = <<>> THEN "Password is required"
    ELSE IF Len(s) < 6 THEN "Password must be at least 6 characters"
    ELSE ""

RegisterPasswordError(s) ==
    IF LoginPasswordError(s) # "" THEN LoginPasswordError(s)
    ELSE IF ~MatchesPassword(s) THEN "Password must contain at least one uppercase letter, one lowercase letter, and one number"
    ELSE ""

ConfirmPasswordError(p, c) ==
    IF Trim(c) = <<>> THEN "Please confirm your password"
    ELSE IF p # c THEN "Passwords do not match"
    ELSE ""

\* the errors object validateForm builds
ValidateForm(f) ==
    IF f.page = "login"
    THEN [NoFieldErrors EXCEPT !.email = EmailError(f.email),
                               !.password = LoginPasswordError(f.password)]
    ELSE [email |-> EmailError(f.email),
          username |-> UsernameError(f.username),
          password |-> RegisterPasswordError(f.password),
          confirmPassword |-> ConfirmPasswordError(f.password, f.confirmPassword)]

\* validateForm's result: Object.keys(errors).length === 0
FormValidAlways(f) == TRUE
FormValid(f) == ValidateForm(f) = NoFieldErrors

\* the endpoint of the page's request
AuthRequest(f) ==
    [to |-> IF f.page = "login" THEN "/auth/login" ELSE "/auth/register"]

\* the responses to a form's request: "okNotJson" is a 2xx response whose
\* body res.json() rejects, "throw" a fetch that rejects
AuthOutcomes ==
    {"ok", "okNotJson", "400", "401", "409", "409email", "409username",
     "429", "500", "404", "throw"}

\* the message includes "required"
IncludesRequired(m) ==
    m \in {"Email is required", "Username is required", "Password is required"}

\* setEmail, setUsername, setPassword, setConfirmPassword of the onChange
\* handlers; the fields are disabled while isLoading
HandleEmailChange(t) ==
    /\ form.page # "none" /\ ~form.isLoading
    /\ form' = [form EXCEPT !.email = t, !.fieldErrors.email = "", !.error = ""]
    /\ last' = [op |-> "handleEmailChange"]
    /\ UNCHANGED <<now, toastVars, pageVars, sockVars, posted, listVars,
                   retryVars, user>>

HandleUsernameChange(t) ==
    /\ form.page = "register" /\ ~form.isLoading
    /\ form' = [form EXCEPT !.username = t, !.fieldErrors.username = "",
                            !.error = ""]
    /\ last' = [op |-> "handleUsernameChange"]
    /\ UNCHANGED <<now, toastVars, pageVars, sockVars, posted, listVars,
                   retryVars, user>>

\* the confirmPassword message after handlePasswordChange of RegisterPage
ConfirmErrorAfterPassword(f, t) ==
    IF f.fieldErrors.confirmPassword # "" /\ f.confirmPassword # <<>>
    THEN IF t = f.confirmPassword THEN ""
         ELSE IF ~IncludesRequired(f.fieldErrors.confirmPassword)
              THEN "Passwords do not match"
              ELSE f.fieldErrors.confirmPassword
    ELSE f.fieldErrors.confirmPassword

HandlePasswordChange(t) ==
    /\ form.page # "none" /\ ~form.isLoading
    /\ form' = [form EXCEPT
                  !.password = t,
                  !.fieldErrors.password = "",
                  !.fieldErrors.confirmPassword =
                      IF form.page = "register"
                      THEN ConfirmErrorAfterPassword(form, t) ELSE @,
                  !.error = ""]
    /\ last' = [op |-> "handlePasswordChange"]
    /\ UNCHANGED <<now, toastVars, pageVars, sockVars, posted, listVars,
                   retryVars, user>>

HandleConfirmPasswordChange(t) ==
    /\ form.page = "register" /\ ~form.isLoading
    /\ form' = [form EXCEPT
                  !.confirmPassword = t,
                  !.fieldErrors.confirmPassword =
                      IF @ # "" /\ form.password = t THEN "" ELSE @,
                  !.error = ""]
    /\ last' = [op |-> "handleConfirmPasswordChange"]
    /\ UNCHANGED <<now, toastVars, pageVars, sockVars, posted, listVars,
                   retryVars, user>>

\* handleSubmit up to its await: the submit button is disabled while
\* isLoading
HandleSubmit ==
    /\ form.page # "none" /\ ~form.isLoading
    /\ form' = [form EXCEPT
                  !.error = "",
                  !.fieldErrors = ValidateForm(form),
                  !.isLoading = FormValid(form),
                  !.reqs = IF FormValid(form) THEN {AuthRequest(form)} ELSE {}]
    /\ last' = [op |-> "handleSubmit", valid |-> FormValid(form)]
    /\ UNCHANGED <<now, toastVars, pageVars, sockVars, posted, listVars,
                   retryVars, user>>

\* setError and setFieldErrors of handleSubmit after the response
AuthError(pg, out, e) ==
    CASE out = "ok" -> e
      [] out \in {"409email", "409username"} /\ pg = "register" -> e
      [] out = "409" /\ pg = "register" ->
             "An account with these details already exists."
      [] out = "400" /\ pg = "register" ->
             "Invalid registration data. Please check your inputs."
      [] out = "401" /\ pg = "login" ->
             "Invalid email or password. Please check your credentials and try again."
      [] out = "429" /\ pg = "login" ->
             "Too many login attempts. Please wait a moment before trying again."
      [] out = "429" /\ pg = "register" ->
             "Too many registration attempts. Please wait a moment before trying again."
      [] out = "500" -> "Server error. Please try again later."
      [] out = "throw" ->
             "Unable to connect to the server. Please check your internet connection."
      [] out = "okNotJson" -> "An unexpected error occurred. Please try again."
      [] OTHER -> IF pg = "login" THEN "Login failed. Please try again."
                                  ELSE "Registration failed. Please try again."

AuthFieldErrors(pg, out, fe) ==
    IF pg = "register" /\ out = "409email"
    THEN [fe EXCEPT !.email = "This email is already registered"]
    ELSE IF pg = "register" /\ out = "409username"
    THEN [fe EXCEPT !.username = "This username is already taken"]
    ELSE fe

\* localStorage.setItem("token", ...) and setItem("user", ...)
StoredAfterAlways(out, had) == TRUE
StoredAfter(out, had) == IF out = "ok" THEN TRUE ELSE had

\* handleSubmit from the response on
AuthSettles(q, out) ==
    /\ q \in form.reqs
    /\ out \in AuthOutcomes
    /\ form' = [form EXCEPT
                  !.error = AuthError(form.page, out, @),
                  !.fieldErrors = AuthFieldErrors(form.page, out, @),
                  !.isLoading = BusyAfter(@),
                  !.reqs = @ \ {q}]
    /\ token' = StoredAfter(out, token)
    /\ user' = StoredAfter(out, user)
    /\ nav' = IF out = "ok" THEN Dashboard ELSE nav
    /\ last' = [op |-> "authSettles", out |-> out]
    /\ UNCHANGED <<now, toastVars, roomVars, sockVars, posted, listVars,
                   retryVars>>

(* --------------------------- the chat-room page ------------------------ *)
\* the messages the server holds when the page is opened
InitialLog ==
    [r \in Rooms |-> IF r = "A" THEN <<[id |-> <<1>>, createdAt |-> 0]>>
                                 ELSE <<[id |-> <<2>>, createdAt |-> 0]>>]

\* the state after the first render and the first run of the effect, with
\* the server holding log
PageInit(log) ==
    /\ now = 0
    /\ toasts = <<>> /\ timers = {} /\ nAdded = 0
    /\ roomId \in {"A", NoRoom}
    /\ token \in BOOLEAN
    /\ nav = EffectNav(roomId, token, "none")
    /\ message = <<>>
    /\ messages = <<>>
    /\ roomInfo = NoInfo
    /\ isLoading = EffectIsLoading(roomId, TRUE)
    /\ isLoadingMessages = TRUE
    /\ error = EffectError(roomId, "")
    /\ isSendingMessage = FALSE
    /\ copiedRoomId = FALSE
    /\ fetches = IF EffectLoads(roomId, token) THEN StartLoad(1, roomId) ELSE {}
    /\ nLoads = IF EffectLoads(roomId, token) THEN 1 ELSE 0
    /\ conn = SocketOpen(roomId)
    /\ socketMessages = <<>>
    /\ failures = 0
    /\ prevConn = "none"
    /\ posted = log
    /\ joined = Rooms
    /\ list = ListUnmounted
    /\ form = FormUnmounted /\ user = token
    /\ last = [op |-> "init"]

\* a click on the Link of room r in the room-list page: the room-list page
\* is unmounted and ChatRoom is mounted, with a useToast state of its own;
\* its first render and effect run.  The requests and timers the room-list
\* page leaves behind are left out: they no longer change what is shown.
OpenRoom(r) ==
    /\ list.mounted
    /\ ListView = "rooms"
    /\ \E i \in 1..Len(list.rooms) : list.rooms[i] = r
    /\ EffectLoads(r, token) => nLoads < MaxLoads
    /\ list' = ListUnmounted
    /\ toasts' = <<>>
    /\ timers' = {}
    /\ roomId' = r
    /\ nav' = EffectNav(r, token, nav)
    /\ message' = <<>>
    /\ messages' = <<>>
    /\ roomInfo' = NoInfo
    /\ isLoading' = EffectIsLoading(r, TRUE)
    /\ isLoadingMessages' = TRUE
    /\ error' = EffectError(r, "")
    /\ isSendingMessage' = FALSE
    /\ copiedRoomId' = FALSE
    /\ IF EffectLoads(r, token)
       THEN /\ fetches' = StartLoad(nLoads + 1, r)
            /\ nLoads' = nLoads + 1
       ELSE /\ fetches' = {}
            /\ UNCHANGED nLoads
    /\ conn' = SocketOpen(r)
    /\ socketMessages' = <<>>
    /\ failures' = 0
    /\ last' = [op |-> "openRoom", room |-> r]
    /\ UNCHANGED <<now, nAdded, token, prevConn, posted, joined, authVars>>

Chats == "/chats"

\* the effect of the room-list page: fetchRooms is called when there is a
\* token
ListEffectLoads(tk) == tk

\* handleGoBack: the chat-room page is left for the room-list page, which
\* is mounted and runs its effect
HandleGoBack ==
    /\ ~list.mounted
    /\ View \in {"invalid", "error", "chat"}
    /\ list' = [ListUnmounted EXCEPT
                  !.mounted = TRUE,
                  !.reqs = IF ListEffectLoads(token)
                           THEN {RoomsRequest("none")} ELSE {}]
    /\ nav' = IF ListEffectLoads(token) THEN Chats ELSE Login
    /\ toasts' = <<>>
    /\ timers' = {}
    /\ roomId' = NoRoom
    /\ message' = <<>>
    /\ messages' = <<>>
    /\ roomInfo' = NoInfo
    /\ isLoading' = FALSE
    /\ isLoadingMessages' = FALSE
    /\ error' = ""
    /\ isSendingMessage' = FALSE
    /\ copiedRoomId' = FALSE
    /\ fetches' = {}
    /\ conn' = "Disconnected"
    /\ socketMessages' = <<>>
    /\ failures' = 0
    /\ last' = [op |-> "handleGoBack"]
    /\ UNCHANGED <<now, nAdded, nLoads, token, prevConn, posted, joined,
                   authVars>>

(* --------------------------- the room-list page ------------------------ *)
\* the state after the first render of the room-list page and its effect:
\* with a token fetchRooms has sent its request, with none the login page
\* is asked for
InitList ==
    /\ now = 0
    /\ toasts = <<>> /\ timers = {} /\ nAdded = 0
    /\ token \in BOOLEAN
    /\ nav = IF ListEffectLoads(token) THEN "none" ELSE Login
    /\ list = [ListUnmounted EXCEPT
                 !.mounted = TRUE,
                 !.reqs = IF ListEffectLoads(token)
                          THEN {RoomsRequest("none")} ELSE {}]
    /\ joined = {"A"}
    /\ posted = InitialLog
    /\ roomId = NoRoom /\ message = <<>> /\ messages = <<>>
    /\ roomInfo = NoInfo /\ isLoading = FALSE /\ isLoadingMessages = FALSE
    /\ error = "" /\ isSendingMessage = FALSE /\ copiedRoomId = FALSE
    /\ fetches = {} /\ nLoads = 0
    /\ conn = "Disconnected" /\ socketMessages = <<>>
    /\ failures = 0 /\ prevConn = "none"
    /\ form = FormUnmounted /\ user = token
    /\ last = [op |-> "init"]

\* the room-list page, and the chat room opened from it, within the time
\* to live of the toasts
NextList ==
    \/ \E q \in list.reqs : \E out \in Outcomes : RoomsSettles(q, out)
    \/ ListHandleRetry
    \/ \E t \in RoomNames : SetRoomName(t)
    \/ \E t \in JoinTexts : SetJoinRoomId(t)
    \/ HandleCreateRoom
    \/ \E q \in list.reqs : \E out \in Outcomes :
          \E r \in Rooms \cup {NoRoom} : CreateSettles(q, out, r)
    \/ HandleJoinRoom
    \/ \E q \in list.reqs :
          \E out \in Outcomes \cup {"409"} : JoinSettles(q, out)
    \/ \E r \in Rooms : \E ok \in BOOLEAN : ListHandleCopyRoomId(r, ok)
    \/ \E i \in 1..Len(toasts) : CloseListToast(i)
    \/ \E r \in Rooms : OpenRoom(r)
    \/ \E f \in fetches : \E out \in Outcomes : FetchSettles(f, out)
    \/ \E ok \in BOOLEAN : HandleCopyRoomId(ok)
    \/ HandleRetry
    \/ HandleGoBack

SpecList == InitList /\ [][NextList]_vars

\* loading, retrying and switching rooms; the entries of the arrays the
\* server sends are well formed
InitRoom == PageInit(InitialLog)

NextRoom ==
    \/ \E f \in fetches : \E out \in Outcomes \ {"okNoId"} : FetchSettles(f, out)
    \/ \E r \in Rooms \cup {NoRoom} : SwitchRoom(r)
    \/ HandleRetry

SpecRoom == InitRoom /\ [][NextRoom]_vars

\* one room: the history fetch, the live stream and the server's new messages
InitMerge == PageInit([r \in Rooms |-> <<>>])

NextMerge ==
    \/ \E f \in fetches : \E out \in Outcomes : FetchSettles(f, out)
    \/ HandleRetry
    \/ HandshakeOk
    \/ TransportError
    \/ BackoffElapsed
    \/ PostMessage("A")
    \/ Tick

SpecMerge == InitMerge /\ [][NextMerge]_vars

\* the chat view of room A after its first load succeeded: typing, sending,
\* copying the room id, the toasts, the connection
InitChat ==
    /\ now = 0
    /\ toasts = <<>> /\ timers = {} /\ nAdded = 0
    /\ roomId = "A"
    /\ token = TRUE
    /\ nav = "none"
    /\ message = <<>>
    /\ posted = InitialLog
    /\ messages = HistoryOf("A")
    /\ roomInfo = RoomInfoOf("A")
    /\ isLoading = FALSE
    /\ isLoadingMessages = FALSE
    /\ error = ""
    /\ isSendingMessage = FALSE
    /\ copiedRoomId = FALSE
    /\ fetches = {}
    /\ nLoads = 1
    /\ conn = SocketOpen(roomId)
    /\ socketMessages = <<>>
    /\ failures = 0
    /\ prevConn = "none"
    /\ joined = Rooms
    /\ list = ListUnmounted
    /\ form = FormUnmounted /\ user = token
    /\ last = [op |-> "init"]

NextChat ==
    \/ HandleSend
    \/ \E t \in Texts : SetMessage(t)
    \/ \E ok \in BOOLEAN : HandleCopyRoomId(ok)
    \/ \E tm \in timers : CopiedTimerFires(tm)
    \/ \E tm \in timers : ToastTimerFires(tm)
    \/ \E i \in 1..Len(toasts) : CloseToast(i)
    \/ HandshakeOk
    \/ TransportError
    \/ BackoffElapsed
    \/ Tick

SpecChat == InitChat /\ [][NextChat]_vars

\* one room from its first load on, within the time to live of the
\* notifications: the fetches, Retry, the live messages, sending, copying
\* the room id, dismissing a notification
InitInfo == PageInit([r \in Rooms |-> <<>>])

NextInfo ==
    \/ \E f \in fetches : \E out \in Outcomes \ {"okNoId"} : FetchSettles(f, out)
    \/ HandleRetry
    \/ HandshakeOk
    \/ PostMessage("A")
    \/ HandleSend
    \/ \E t \in Texts : SetMessage(t)
    \/ \E ok \in BOOLEAN : HandleCopyRoomId(ok)
    \/ \E i \in 1..Len(toasts) : CloseToast(i)

SpecInfo == InitInfo /\ [][NextInfo]_vars

\* the connection of the chat-room page with its reconnection schedule,
\* across room switches
InitSocket == PageInit(InitialLog)

NextSocket ==
    \/ ConnectionOpens
    \/ ConnectionFails
    \/ \E tm \in timers : ReconnectTimerFires(tm)
    \/ \E r \in Rooms \cup {NoRoom} : SwitchRoom(r)
    \/ Tick

SpecSocket == InitSocket /\ [][NextSocket]_vars

(* ----------------------------- the form pages -------------------------- *)
\* the login page or the register page after its first render; localStorage
\* may hold items of an earlier session
InitAuth ==
    /\ now = 0
    /\ toasts = <<>> /\ timers = {} /\ nAdded = 0
    /\ token \in BOOLEAN /\ user \in BOOLEAN
    /\ nav = "none"
    /\ form \in {[FormUnmounted EXCEPT !.page = p] : p \in {"login", "register"}}
    /\ list = ListUnmounted
    /\ joined = {}
    /\ posted = [r \in Rooms |-> <<>>]
    /\ roomId = NoRoom /\ message = <<>> /\ messages = <<>>
    /\ roomInfo = NoInfo /\ isLoading = FALSE /\ isLoadingMessages = FALSE
    /\ error = "" /\ isSendingMessage = FALSE /\ copiedRoomId = FALSE
    /\ fetches = {} /\ nLoads = 0
    /\ conn = "Disconnected" /\ socketMessages = <<>>
    /\ failures = 0 /\ prevConn = "none"
    /\ last = [op |-> "init"]

NextAuth ==
    \/ \E t \in Emails : HandleEmailChange(t)
    \/ \E t \in Usernames : HandleUsernameChange(t)
    \/ \E t \in Passwords : HandlePasswordChange(t)
    \/ \E t \in Passwords : HandleConfirmPasswordChange(t)
    \/ HandleSubmit
    \/ \E q \in form.reqs : \E out \in AuthOutcomes : AuthSettles(q, out)

SpecAuth == InitAuth /\ [][NextAuth]_vars

(* ------------------------------ every page ----------------------------- *)
\* each page from its first render: the handlers that raise a busy flag,
\* the inputs they read, and the responses they wait for
InitBusy == InitList \/ InitChat \/ InitAuth

NextBusy ==
    \/ \E q \in list.reqs : \E out \in Outcomes : RoomsSettles(q, out)
    \/ \E t \in RoomNames : SetRoomName(t)
    \/ \E t \in JoinTexts : SetJoinRoomId(t)
    \/ HandleCreateRoom
    \/ \E q \in list.reqs : \E out \in Outcomes :
          \E r \in Rooms \cup {NoRoom} : CreateSettles(q, out, r)
    \/ HandleJoinRoom
    \/ \E q \in list.reqs :
          \E out \in Outcomes \cup {"409"} : JoinSettles(q, out)
    \/ HandshakeOk
    \/ \E t \in Texts : SetMessage(t)
    \/ HandleSend
    \/ NextAuth

SpecBusy == InitBusy /\ [][NextBusy]_vars

(* ------------------------ the notification queue ----------------------- *)
\* useToast on its own: no page is mounted around it
PageUnused ==
    /\ roomId = NoRoom /\ token = FALSE /\ nav = "none" /\ message = <<>>
    /\ messages = <<>> /\ roomInfo = NoInfo /\ isLoading = FALSE
    /\ isLoadingMessages = FALSE /\ error = "" /\ isSendingMessage = FALSE
    /\ copiedRoomId = FALSE /\ fetches = {} /\ nLoads = 0
    /\ conn = "Disconnected" /\ socketMessages = <<>>
    /\ failures = 0 /\ prevConn = "none"
    /\ posted = [r \in Rooms |-> <<>>]
    /\ joined = {}
    /\ list = ListUnmounted
    /\ form = FormUnmounted /\ user = FALSE

InitToast ==
    /\ now = 0
    /\ toasts = <<>>
    /\ timers = {}
    /\ nAdded = 0
    /\ last = [op |-> "init", id |-> <<>>, n |-> 0, removed |-> 0]
    /\ PageUnused

NextToast ==
    \/ \E ty \in ToastTypes : AddToast(ty)
    \/ \E id \in IdUniverse : RemoveToast(id)
    \/ \E tm \in timers : ToastTimerFires(tm)
    \/ Tick

SpecToast == InitToast /\ [][NextToast]_vars

(* ---------------------- properties of the chat room -------------------- *)
\* the list of messages is on screen
ListShown == View = "chat" /\ ~isLoadingMessages

\* m1 comes before m2 in the display order: createdAt, then id
MsgLess(m1, m2) ==
    \/ m1.createdAt < m2.createdAt
    \/ m1.createdAt = m2.createdAt /\ LexLess(m1.id, m2.id)

\* C1 (Dedup invariant): the rendered list holds each message id once.
C1_DistinctIds ==
    (nav = "none" /\ ListShown) =>
        \A i, j \in 1..Len(MergedView) :
            i # j => MergedView[i].id # MergedView[j].id

\* C2 (Order invariant): with history and live messages both present, the
\* rendered list is sorted by createdAt, ties by id.
C2_Sorted ==
    (nav = "none" /\ ListShown /\ messages # <<>> /\ socketMessages # <<>>) =>
        \A i, j \in 1..Len(MergedView) :
            i < j => ~MsgLess(MergedView[j], MergedView[i])

\* C3 (Stale-room guard): a fetch started for another room than the active
\* one writes neither messages nor roomInfo when it settles.
C3_StaleFetchWritesNothing ==
    [][ (last'.op = "fetch" /\ last'.room # roomId)
          => (messages' = messages /\ roomInfo' = roomInfo) ]_vars

varsButLast == <<now, toasts, timers, nAdded, roomId, token, nav, message,
                 messages, roomInfo, isLoading, isLoadingMessages, error,
                 isSendingMessage, copiedRoomId, fetches, nLoads, conn,
                 socketMessages, posted, restVars>>

\* C8 (Validation failure on send): handleSend with an input that is empty
\* after trimming calls no send and changes nothing.
C8_EmptySendIsNoop ==
    [][ (last'.op = "handleSend" /\ Trim(message) = <<>>)
          => (~last'.called /\ UNCHANGED varsButLast) ]_vars

\* handleSend ran on an input of white space only, with a toast on screen
C8_Witness ==
    /\ last.op = "handleSend"
    /\ last.text = <<" ">>
    /\ ~last.called
    /\ conn = "Connected"
    /\ toasts # <<>>

\* C9 (Send failure is transient): a rejected send adds a notification and
\* does not put the page into the error state.
C9_SendFailureIsToast ==
    [][ (last'.op = "handleSend" /\ last'.threw)
          => (Len(toasts') = Len(toasts) + 1 /\ View' # "error") ]_vars

FailedOutcomes == {"403", "404", "500", "throw"}

\* C10 (Blocking errors): a fetch for the active room that ends in 403, 404,
\* another non-ok status or a rejection sets the error and adds no toast; the
\* error stays until Retry; with the error set and loading over, the page
\* shown is the error page.
C10_BlockingErrors ==
    /\ [][ (last'.op = "fetch" /\ last'.room = roomId
              /\ last'.out \in FailedOutcomes)
            => (error' # "" /\ toasts' = toasts
                /\ (~isLoading' => View' = "error")) ]_vars
    /\ [][ (error # "" /\ error' = "") => last'.op = "handleRetry" ]_vars
    /\ []((roomId # NoRoom /\ ~isLoading /\ error # "") => View = "error")

\* the load of the active room is over, its message fetch ended in 404, and
\* the error page is shown
C10_Witness ==
    /\ last.op = "fetch"
    /\ last.room = roomId
    /\ last.kind = "msgs"
    /\ last.out = "404"
    /\ fetches = {}
    /\ View = "error"
    /\ error = "Room not found"

\* C12 (Room switch discards): when the room id changes from one room to
\* another, the view of the new room shows neither the RoomInfo nor the
\* history messages of the room that was left.
C12_SwitchDiscards ==
    [][ (last'.op = "switchRoom" /\ last'.from # NoRoom /\ View' = "chat")
          => /\ roomInfo' # RoomInfoOf(last'.from)
             /\ ~isLoadingMessages' =>
                    (messages' = <<>> \/ messages' # HistoryOf(last'.from)) ]_vars

\* C17 (Non-optimistic send): a handleSend that called the send and did not
\* throw clears the input and leaves the history messages as they were.
C17_NonOptimisticSend ==
    [][ (last'.op = "handleSend" /\ last'.called /\ ~last'.threw)
          => (message' = <<>> /\ messages' = messages) ]_vars

\* handleSend sent the text "hi" on an open connection: the input is empty
\* and the history is there
C17_Witness ==
    /\ last.op = "handleSend"
    /\ last.called
    /\ ~last.threw
    /\ last.text = <<"h", "i">>
    /\ message = <<>>
    /\ messages = HistoryOf("A")
    /\ messages # <<>>

\* C18 (Malformed input): no entry without an id is in the rendered list.
C18_NoMalformedEntry ==
    (nav = "none" /\ ListShown) =>
        \A i \in 1..Len(MergedView) : MergedView[i].id # NoId

\* C30 (Copied indicator under overlapping copies): while less than 2000 ms
\* have passed since a successful copy, the Copied indicator is set.
C30_CopiedStaysSet ==
    \A tm \in timers : (tm.kind = "copied" /\ tm.due > now) => copiedRoomId

\* the two fetches of one loadRoomData call for the active room settled one
\* after the other, both with a well-formed body, and nothing is in flight
\* C21 (RoomInfo changes only on a successful fetch): a step that changes
\* roomInfo is the settling of a room-info fetch with a 200 response; live
\* messages, sending, copying the room id and adding or removing a
\* notification leave roomInfo as it is.
C21_RoomInfoOnlyByFetch ==
    [][ /\ roomInfo' # roomInfo =>
             (last'.op = "fetch" /\ last'.kind = "info" /\ last'.out = "ok")
        /\ last'.op \in {"post", "handleSend", "handleCopyRoomId", "removeToast"}
             => roomInfo' = roomInfo
      ]_vars

\* room A's info has been fetched and a live message, a sent message, a copy
\* and a dismissed notification came after it
C21_Witness ==
    /\ roomInfo = RoomInfoOf("A")
    /\ socketMessages # <<>>
    /\ toasts # <<>>
    /\ last.op = "handleSend"

(* ---------------------- properties of the form pages ------------------- *)
\* C24 (Credential stored only on success): a step of the login or register
\* page writes the token and the user to localStorage and asks for the
\* dashboard when it is the handling of an ok response, and otherwise leaves
\* the storage and the navigation as they are.
C24_StoredOnlyOnSuccess ==
    [][ IF last'.op = "authSettles" /\ last'.out = "ok"
        THEN token' /\ user' /\ nav' = Dashboard
        ELSE UNCHANGED <<token, user, nav>> ]_vars

\* the register page got an ok response: the items are stored, the dashboard
\* is asked for
C24_Witness ==
    /\ last.op = "authSettles" /\ last.out = "ok"
    /\ form.page = "register" /\ ~form.isLoading
    /\ token /\ user /\ nav = Dashboard

\* C25 (No request on invalid form): a request is sent only by a submit
\* whose form validateForm found without error (on the register page the
\* password equals its confirmation); a submit of a form with an error sends
\* no request, leaves the busy flag false and sets the field errors.
C25_NoRequestOnInvalidForm ==
    [][ /\ (form'.reqs # {} /\ form'.reqs # form.reqs) =>
              /\ last'.op = "handleSubmit"
              /\ ValidateForm(form) = NoFieldErrors
              /\ form.page = "register" => form.password = form.confirmPassword
        /\ (last'.op = "handleSubmit" /\ ValidateForm(form) # NoFieldErrors) =>
              /\ form'.reqs = {}
              /\ ~form'.isLoading
              /\ form'.fieldErrors = ValidateForm(form)
              /\ form'.fieldErrors # NoFieldErrors
      ]_vars

\* the register form was submitted with passwords that differ
C25_Witness ==
    /\ last.op = "handleSubmit" /\ ~last.valid
    /\ form.page = "register"
    /\ form.fieldErrors.confirmPassword = "Passwords do not match"
    /\ form.fieldErrors.password = ""

\* C26 (Busy flags always released): whenever isSendingMessage,
\* isCreatingRoom, isJoiningRoom or the isLoading of the login or register
\* form is true, the operation that raised it is still in flight.
C26_BusyFlagsReleased ==
    /\ ~isSendingMessage
    /\ list.isCreatingRoom => \E q \in list.reqs : q.kind = "create"
    /\ list.isJoiningRoom =>
          \E q \in list.reqs : q.kind = "join" \/ q.cont = "join"
    /\ form.isLoading => form.reqs # {}

\* a form's request failed and its flag is down again
C26_Witness ==
    /\ last.op = "authSettles" /\ last.out = "throw"
    /\ ~form.isLoading /\ form.reqs = {}

\* C22 (Copy-to-clipboard failure): when the clipboard write fails, on the
\* room-list page or in the chat room, exactly one error notification is
\* added and nothing else changes: the Copied indicator is not set, no
\* blocking error is raised, the rooms and the messages stay as they are.
C22_CopyFailure ==
    [][ (last'.op = "handleCopyRoomId" /\ ~last'.ok) =>
          /\ Len(toasts') = Len(toasts) + 1
          /\ SubSeq(toasts', 1, Len(toasts)) = toasts
          /\ toasts'[Len(toasts')].type = "error"
          /\ copiedRoomId' = copiedRoomId
          /\ list'.copiedRoomId = list.copiedRoomId
          /\ error' = error /\ list'.error = list.error
          /\ list'.rooms = list.rooms
          /\ messages' = messages /\ socketMessages' = socketMessages
      ]_vars

\* a copy failed in the chat room, where no copy had succeeded
C22_Witness ==
    /\ last.op = "handleCopyRoomId" /\ ~last.ok
    /\ View = "chat" /\ ~copiedRoomId
    /\ toasts # <<>> /\ toasts[Len(toasts)].type = "error"

\* a copy failed on the room-list page, where no copy had succeeded
C22_WitnessList ==
    /\ last.op = "handleCopyRoomId" /\ ~last.ok
    /\ list.mounted /\ list.copiedRoomId = NoRoom
    /\ toasts # <<>> /\ toasts[Len(toasts)].type = "error"

\* the responses a fetch takes for a success
Succeeded(out) == out \in {"ok", "okNotArray", "okNoId"}

\* the second fetch of a loadRoomData call settles right after the first
LoadEnded ==
    /\ last.op = "fetch" /\ last'.op = "fetch"
    /\ last.k = last'.k
    /\ \A g \in fetches' : g.k # last'.k

C23_WitnessList ==
    /\ list.mounted /\ last.op = "listHandleRetry"
    /\ ListView = "loading" /\ list.error = ""

C29_WitnessList ==
    /\ last.op = "handleGoBack" /\ ~token
    /\ list.mounted /\ nav = Login /\ list.reqs = {}

LoadSucceeded ==
    /\ last.op = "fetch" /\ last'.op = "fetch"
    /\ last.k = last'.k
    /\ last.out = "ok" /\ last'.out = "ok"
    /\ last'.room = roomId
    /\ fetches' = {}

\* C27 (Loading terminates): when both fetches of the latest load have
\* settled, isLoading and isLoadingMessages are false; while a fetch of the
\* latest load of the active room is in flight, isLoading is true.
C27_LoadingTerminates ==
    /\ [][ (last'.op = "fetch" /\ last'.k = nLoads'
              /\ \A g \in fetches' : g.k # last'.k)
            => (~isLoading' /\ ~isLoadingMessages') ]_vars
    /\ []((\E f \in fetches : f.k = nLoads /\ f.room = roomId) => isLoading)

\* the room id has changed since the page was opened: useSocket closed a
\* connection
Switched == prevConn = "Disconnected"

\* the errors a fetch sets
FetchErrors ==
    {FetchError(kd, out, "") : kd \in {"info", "msgs"}, out \in FailedOutcomes}

\* C28 (Error state does not outlive its room): when the fetches of the
\* room switched to have both succeeded, the error page is not shown with
\* the error of an earlier fetch.
C28_ErrorLeavesWithRoom ==
    [][ (LoadSucceeded /\ Switched)
          => ~(View' = "error" /\ error' \in FetchErrors) ]_vars

(* ------------------ properties of the authorized requests -------------- *)
\* C11 (Authorization failure on load): a room-info, message-history or
\* room-list fetch that ends in 401 removes the token, asks for the login
\* page and writes nothing into rooms, messages or roomInfo.
C11_UnauthorizedFetch ==
    [][ (last'.op \in {"fetch", "fetchRooms"} /\ last'.out = "401")
          => /\ ~token'
             /\ nav' = Login
             /\ list'.rooms = list.rooms
             /\ messages' = messages
             /\ roomInfo' = roomInfo ]_vars

\* the room-info fetch of a room opened from the room-list page ended in
\* 401 after the message fetch had written the history
C11_Witness ==
    /\ last.op = "fetch"
    /\ last.kind = "info"
    /\ last.out = "401"
    /\ messages # <<>>
    /\ ~token
    /\ nav = Login

\* the room-list fetch ended in 401 with the rooms of an earlier fetch listed
C11_WitnessList ==
    /\ last.op = "fetchRooms"
    /\ last.out = "401"
    /\ list.rooms # <<>>
    /\ ~token
    /\ nav = Login

\* C13 (One notification queue): the chat-room page opened from the
\* room-list page observes the queue the room-list page had.
C13_SharedQueue ==
    [][ last'.op = "openRoom" => toasts' = toasts ]_vars

\* C16 (Authorization failure of create-room and join-room): a 401 answer
\* to either request removes the token and asks for the login page.
C16_UnauthorizedPost ==
    [][ (last'.op \in {"createRoom", "joinRoom"} /\ last'.out = "401")
          => (~token' /\ nav' = Login) ]_vars

(* ---------------------- properties of the connection ------------------- *)
\* the steps of the state machine as the lifecycle rule lists them
ListedEdges ==
    {<<"Disconnected", "Connecting">>, <<"Connecting", "Connected">>,
     <<"Connected", "Reconnecting">>, <<"Reconnecting", "Connecting">>}

\* a connection moves along the edges of E only; a room switch closes the
\* connection, leaves it Disconnected with no reconnection timer pending,
\* and opens the next one; a closed connection stays Disconnected
LifecycleAlong(E) ==
    /\ (conn' # conn /\ last'.op # "switchRoom") => <<conn, conn'>> \in E
    /\ last'.op = "switchRoom"
         => /\ prevConn' = "Disconnected"
            /\ \A tm \in timers' : tm.kind # "reconnect"
            /\ conn' = "Disconnected" \/ <<"Disconnected", conn'>> \in E
    /\ prevConn = "Disconnected" => prevConn' = "Disconnected"

InQueue(n) == \E i \in 1..Len(toasts) : toasts[i].n = n
HasId(q, id) == \E i \in 1..Len(q) : q[i].id = id

\* C4 (Expiry): an entry added at time T is in the queue at no time after
\* T + TTL, whatever adds and removes happen in between.
C4_Expiry == \A i \in 1..Len(toasts) : now <= toasts[i].at + TTL

\* the timer of an entry has just removed it, at its deadline
C4_Witness ==
    /\ last.op = "toastTimer"
    /\ last.removed = 1
    /\ now >= TTL
    /\ toasts # <<>>

\* C5 (Idempotent removal): removeToast(id) with no entry of that id leaves
\* the queue as it is, and a second removeToast(id) right after a first one
\* changes nothing.
C5_IdempotentRemoval ==
    [][ /\ (last'.op = "removeToast" /\ ~HasId(toasts, last'.id))
           => toasts' = toasts
        /\ (last.op = "removeToast" /\ last'.op = "removeToast"
              /\ last'.id = last.id)
           => toasts' = toasts ]_vars

\* removeToast ran on the id of an entry that was added and is already
\* gone (its timer is still pending), with other entries in the queue
C5_Witness ==
    /\ last.op = "removeToast"
    /\ last.removed = 0
    /\ toasts # <<>>
    /\ \E tm \in timers : tm.id = last.id /\ ~InQueue(tm.n)

\* C6 (Timer/dismissal race): the timer of an entry that is no longer in
\* the queue (it was dismissed by removeToast) removes no entry.
C6_TimerAfterDismissalIsNoop ==
    [][ (last'.op = "toastTimer" /\ ~InQueue(last'.n)) => toasts' = toasts ]_vars

\* C7 (Fresh unique id): no two entries of the queue share an id.
C7_UniqueIds ==
    \A i, j \in 1..Len(toasts) : i # j => toasts[i].id # toasts[j].id

\* C19 (Insertion order): the queue lists its entries in the order they
\* were added, and a removeToast or an expiry removes one entry at most.
C19_InsertionOrder ==
    /\ \A i, j \in 1..Len(toasts) : i < j => toasts[i].n < toasts[j].n
    /\ last.op \in {"removeToast", "toastTimer"} => last.removed <= 1

\* C20 (No cap, no eviction): after addToast the queue is the queue before
\* it with the new entry at its end.
C20_AddOnlyAppends ==
    [][ last'.op = "addToast"
          => /\ Len(toasts') = Len(toasts) + 1
             /\ SubSeq(toasts', 1, Len(toasts)) = toasts
             /\ toasts'[Len(toasts')].n = last'.n ]_vars

\* addToast ran on a queue of two entries, which are still there
C20_Witness ==
    /\ last.op = "addToast"
    /\ Len(toasts) = 3
    /\ toasts[3].n = last.n

====
